---- MODULE Spec2Model ----
(***************************************************************************)
(* Model of src/vrmcollector.py: the Victron VRM -> InfluxDB collector.    *)
(*                                                                         *)
(* The program is one sequential process: module-level start-up code       *)
(* (configuration from the environment, validation, sink client), then     *)
(* main(): an endless loop of fetch_installations(), extraction of one     *)
(* point per installation record, influx.write_points(points) and          *)
(* time.sleep(POLL_INTERVAL).                                              *)
(*                                                                         *)
(* The outside world (environment variables, the HTTP exchange, the JSON   *)
(* document that comes back, the sink's answer) is drawn from small sets.  *)
(* Python values are tagged records, so that Python's truthiness, dict.get,*)
(* iteration and str() are modelled by what they do on each kind of value. *)
(*                                                                         *)
(* Domain of the configuration: the required values may be unset or empty; *)
(* INFLUX_PORT and POLL_INTERVAL_SECONDS, when set, are decimal numerals   *)
(* (int() at lines 37 and 42 succeeds and the interval is not negative).   *)
(* The HTTP library is modelled as documented for requests >= 2.27, where  *)
(* the JSONDecodeError raised by Response.json() is a RequestException.    *)
(***************************************************************************)
EXTENDS Integers, Sequences, FiniteSets, TLC

VARIABLES
    environ,     \* os.environ, fixed when the process starts
    pc,          \* where the process is: start, client, fetch, fetched, write, sleep, exited, crashed
    exitStatus,  \* the process's exit status once it has ended, None before
    raised,      \* the exception that left main() unhandled, "none" otherwise
    installs,    \* main's local `installs`: the last result of fetch_installations()
    points,      \* main's local `points`
    log,         \* the log records emitted since the last fetch began (or since start)
    calls,       \* the stages entered since the last fetch began, that fetch included
    slept,       \* the argument of the last time.sleep since the last fetch began
    written,     \* the batches handed to influx.write_points since the last fetch began
    ack,         \* what the last write_points did: none, true, false, raised
    wire,        \* what the last HTTP exchange was (cleared when main looks at the result)
    net,         \* which exchanges the network of this run can produce: "all" or "few"
    memo         \* one earlier cycle, remembered for the properties that relate two cycles

vars == <<environ, pc, exitStatus, raised, installs, points, log, calls, slept,
          written, ack, wire, net, memo>>

(***************************************************************************)
(* Bounds of the model.                                                    *)
(***************************************************************************)
\* the longest `records` list a response carries
MaxRecords == 2

(***************************************************************************)
(* Python / JSON values.                                                   *)
(***************************************************************************)
PyNone == [kind |-> "null"]
JBool(b) == [kind |-> "bool", val |-> b]
JNum(n) == [kind |-> "num", val |-> n]
\* a JSON number with a fraction, held in tenths: 42.5 is JFloat(425)
JFloat(t) == [kind |-> "float", tenths |-> t]
JStr(s) == [kind |-> "str", val |-> s]
JList(s) == [kind |-> "list", items |-> s]
\* a JSON object / Python dict: its keys in insertion order and its mapping
JObj(ks, vs) ==
    [kind |-> "dict", keys |-> ks,
     get |-> [k \in {ks[i] : i \in 1..Len(ks)} |->
                 vs[CHOOSE i \in 1..Len(ks) : ks[i] = k]]]

\* truthiness with every list, dict and string taken as true, as `is not None` would
Truthy_ContainersAlways(v) ==
    CASE v.kind = "null" -> FALSE
      [] v.kind = "bool" -> v.val
      [] v.kind = "num"  -> v.val # 0
      [] v.kind = "float" -> v.tenths # 0
      [] v.kind \in {"str", "list", "dict"} -> TRUE

\* Python truthiness: `not v` is ~Truthy(v)
Truthy(v) ==
    CASE v.kind = "null" -> FALSE
      [] v.kind = "bool" -> v.val
      [] v.kind = "num"  -> v.val # 0
      [] v.kind = "float" -> v.tenths # 0
      [] v.kind = "str"  -> v.val # ""
      [] v.kind = "list" -> v.items # <<>>
      [] v.kind = "dict" -> v.keys # <<>>

\* isinstance(v, dict)
IsDict(v) == v.kind = "dict"

\* d.get(k) of a dict: the value, None when the key is absent
DictGet(d, k) == IF k \in DOMAIN d.get THEN d.get[k] ELSE PyNone

\* whether `for x in v` can start: iter(v) raises TypeError otherwise
Iterable(v) == v.kind \in {"list", "dict", "str"}

\* what `for x in v` yields: a list's items, a dict's keys, a string's characters
Iterate(v) ==
    CASE v.kind = "list" -> v.items
      [] v.kind = "dict" -> [i \in 1..Len(v.keys) |-> JStr(v.keys[i])]
      [] v.kind = "str"  -> [i \in 1..Len(v.val) |-> JStr(SubSeq(v.val, i, i))]

Digit == <<"0", "1", "2", "3", "4", "5", "6", "7", "8", "9">>

\* the decimal numeral of a natural number
RECURSIVE Dec(_)
Dec(n) == IF n < 10 THEN Digit[n + 1] ELSE Dec(n \div 10) \o Digit[(n % 10) + 1]

\* Python str(v) of an int, a str or a bool
Str(v) ==
    CASE v.kind = "num"  -> IF v.val < 0 THEN "-" \o Dec(-v.val) ELSE Dec(v.val)
      [] v.kind = "str"  -> v.val
      [] v.kind = "bool" -> IF v.val THEN "True" ELSE "False"

\* Python `a or b`
Or(a, b) == IF Truthy(a) THEN a ELSE b

\* the value of a decimal numeral, as int() reads it
RECURSIVE ParseInt(_)
ParseInt(s) ==
    LET d(c) == (CHOOSE i \in 1..10 : Digit[i] = c) - 1
    IN  IF Len(s) = 1 THEN d(s)
        ELSE 10 * ParseInt(SubSeq(s, 1, Len(s) - 1)) + d(SubSeq(s, Len(s), Len(s)))

(***************************************************************************)
(* Configuration (lines 31-42).                                            *)
(***************************************************************************)
\* os.getenv(name, default): environ holds None for a variable that is not set
getenv(name, default) == IF environ[name] = PyNone THEN default ELSE environ[name]

TOKEN == getenv("VRM_TOKEN", PyNone)
USER_ID == getenv("VRM_USER_ID", PyNone)
INFLUX_DB == getenv("INFLUX_DB", JStr("vrm"))
POLL_INTERVAL == ParseInt(getenv("POLL_INTERVAL_SECONDS", JStr("60")).val)

\* the environments a run may start in
Environments ==
    [VRM_TOKEN : {PyNone, JStr(""), JStr("tok")},
     VRM_USER_ID : {PyNone, JStr(""), JStr("42")},
     INFLUX_DB : {PyNone, JStr(""), JStr("metrics")},
     POLL_INTERVAL_SECONDS : {PyNone, JStr("5")}]

\* a log record: severity, message template, the number it is formatted with
Rec(level, msg, n) == [level |-> level, msg |-> msg, n |-> n]

\* missing with `val is None` in place of `not val`: an empty value passes
missing_NoneOnly ==
    LET required == <<<<"VRM_TOKEN", TOKEN>>, <<"VRM_USER_ID", USER_ID>>,
                      <<"INFLUX_DB", INFLUX_DB>>>>
        unset(p) == p[2] = PyNone
        kept == SelectSeq(required, unset)
    IN  [i \in 1..Len(kept) |-> kept[i][1]]

\* the names of the required settings whose value is falsy, in order (lines 50-55)
missing ==
    LET required == <<<<"VRM_TOKEN", TOKEN>>, <<"VRM_USER_ID", USER_ID>>,
                      <<"INFLUX_DB", INFLUX_DB>>>>
        falsy(p) == ~Truthy(p[2])
        kept == SelectSeq(required, falsy)
    IN  [i \in 1..Len(kept) |-> kept[i][1]]

(***************************************************************************)
(* The HTTP exchange and fetch_installations (lines 75-84).                *)
(***************************************************************************)
\* a response body that is not JSON
Unparseable == [kind |-> "invalid"]

\* the installation records a response may list, and a list element that is no object
RecFull == JObj(<<"idSite", "name", "identifier">>, <<JNum(7), JStr("Home"), JStr("abc")>>)
RecZero == JObj(<<"idSite", "name", "identifier">>, <<JNum(0), JStr(""), JStr("")>>)
RecNull == JObj(<<"idSite", "name", "identifier">>, <<PyNone, PyNone, PyNone>>)
RecEmpty == JObj(<<>>, <<>>)
RecBig == JObj(<<"idSite", "identifier">>, <<JNum(12345), JStr("abc")>>)
Elements == {RecFull, RecZero, RecNull, RecEmpty, RecBig, JNum(5)}

\* every sequence over S of length at most n
SeqsUpTo(S, n) == UNION {[1..k -> S] : k \in 0..n}

\* {"success": true, "records": v}
WithRecords(v) == JObj(<<"success", "records">>, <<JBool(TRUE), v>>)

\* {"records": {"soc": {"y": [...]}}} and the same with `y` absent
SeriesY(ys) == JObj(<<"soc">>, <<JObj(<<"y">>, <<JList(ys)>>)>>)
SeriesNoY == JObj(<<"soc">>, <<JObj(<<>>, <<>>)>>)

\* the JSON documents a response body may parse to
Bodies ==
    {WithRecords(JList(s)) : s \in SeqsUpTo(Elements, MaxRecords)}
    \cup {WithRecords(v) : v \in {PyNone, JNum(0), JStr(""), JObj(<<>>, <<>>),
                                  JNum(5), JBool(TRUE), JStr("ab"),
                                  SeriesY(<<>>), SeriesNoY,
                                  SeriesY(<<JFloat(100), JFloat(200), JFloat(425)>>)}}
    \cup {JObj(<<>>, <<>>), JObj(<<"success">>, <<JBool(FALSE)>>),
          PyNone, JNum(5), JStr("err"), JList(<<RecFull>>)}

\* what one requests.get can meet: a network failure, or a status and a body
Exchanges ==
    {[error |-> e, status |-> 0, body |-> Unparseable] : e \in {"ConnectionError", "Timeout"}}
    \cup {[error |-> "none", status |-> s, body |-> Unparseable] : s \in {404, 503}}
    \cup {[error |-> "none", status |-> s, body |-> b] :
              s \in {200, 300}, b \in Bodies \cup {Unparseable}}

\* a small network for the runs that relate two cycles: one network failure, one
\* unparseable body, lists of two kinds of record, a response without records and one
\* whose `records` is no list
FewExchanges ==
    {[error |-> "ConnectionError", status |-> 0, body |-> Unparseable]}
    \cup {[error |-> "none", status |-> 200, body |-> b] :
              b \in {WithRecords(JList(s)) : s \in SeqsUpTo({RecFull, RecNull}, MaxRecords)}
                    \cup {Unparseable, JObj(<<>>, <<>>), WithRecords(JNum(5))}}

\* the exchanges the network of this run can produce
Network == IF net = "all" THEN Exchanges ELSE FewExchanges

Idle == [error |-> "idle", status |-> 0, body |-> Unparseable]

\* Response.raise_for_status(): raises HTTPError for a 4xx or 5xx status
RaisesForStatus(status) == 400 <= status /\ status < 600

\* the classes of requests.exceptions that derive from RequestException
IsRequestException(e) == e \in {"ConnectionError", "Timeout", "HTTPError", "JSONDecodeError"}

\* the except clause naming ConnectionError alone
Caught_ConnectionErrorOnly(e) == e = "ConnectionError"

\* `except RequestException` (line 82)
Caught(e) == IsRequestException(e)

\* fetch_installations on exchange x: the exception it lets out ("none" if none),
\* the value it returns and what it logs
fetch_installations(x) ==
    LET thrown == IF x.error # "none" THEN x.error
                  ELSE IF RaisesForStatus(x.status) THEN "HTTPError"
                  ELSE IF x.body = Unparseable THEN "JSONDecodeError"
                  ELSE "none"
    IN  IF thrown = "none" THEN [exc |-> "none", ret |-> x.body, log |-> <<>>]
        ELSE IF Caught(thrown)
             THEN [exc |-> "none", ret |-> PyNone,
                   log |-> <<Rec("WARNING", "Error fetching VRM installations: %s", 0)>>]
             ELSE [exc |-> thrown, ret |-> PyNone, log |-> <<>>]

(***************************************************************************)
(* Extraction and write, as main() does them (lines 126-158).              *)
(***************************************************************************)
\* line 126: installs.get("records") if isinstance(installs, dict) else None
RecordsOf(inst) == IF IsDict(inst) THEN DictGet(inst, "records") ELSE PyNone

\* line 127 as `if records is None`: an empty list goes on to the write
NothingExtractable_NoneOnly(records) == records = PyNone

\* line 127: `if not records`
NothingExtractable(records) == ~Truthy(records)

\* Point that leaves the identifier tag out when the record has none
Point_DropsEmptyTag(rec) ==
    LET site_id == DictGet(rec, "idSite")
        name == DictGet(rec, "name")
        identifier == DictGet(rec, "identifier")
        idTag == IF site_id # PyNone THEN JStr(Str(site_id)) ELSE JStr("unknown")
    IN  [measurement |-> "vrm_installation",
         tags |-> IF Truthy(identifier)
                  THEN [idSite |-> idTag, identifier |-> identifier]
                  ELSE [idSite |-> idTag],
         fields |-> [name |-> Or(name, JStr(""))]]

\* Point with `if site_id` in place of `if site_id is not None`: idSite 0 reads as unknown
Point_TruthySite(rec) ==
    LET site_id == DictGet(rec, "idSite")
        name == DictGet(rec, "name")
        identifier == DictGet(rec, "identifier")
    IN  [measurement |-> "vrm_installation",
         tags |-> [idSite |-> IF Truthy(site_id) THEN JStr(Str(site_id))
                              ELSE JStr("unknown"),
                   identifier |-> Or(identifier, JStr(""))],
         fields |-> [name |-> Or(name, JStr(""))]]

\* lines 135-148: the point of one record
Point(rec) ==
    LET site_id == DictGet(rec, "idSite")
        name == DictGet(rec, "name")
        identifier == DictGet(rec, "identifier")
    IN  [measurement |-> "vrm_installation",
         tags |-> [idSite |-> IF site_id # PyNone THEN JStr(Str(site_id))
                              ELSE JStr("unknown"),
                   identifier |-> Or(identifier, JStr(""))],
         fields |-> [name |-> Or(name, JStr(""))]]

\* the loop skipping every record that has no idSite
RECURSIVE BuildFrom_SkipNoSite(_, _, _)
BuildFrom_SkipNoSite(items, i, acc) ==
    IF i > Len(items) THEN [exc |-> "none", points |-> acc]
    ELSE IF ~IsDict(items[i]) THEN [exc |-> "AttributeError", points |-> acc]
    ELSE IF DictGet(items[i], "idSite") = PyNone THEN BuildFrom_SkipNoSite(items, i + 1, acc)
    ELSE BuildFrom_SkipNoSite(items, i + 1, Append(acc, Point(items[i])))

\* lines 133-149: the loop over what `records` yields, from element i on, with the
\* points appended so far; rec.get raises AttributeError on an element that is no dict
RECURSIVE BuildFrom(_, _, _)
BuildFrom(items, i, acc) ==
    IF i > Len(items) THEN [exc |-> "none", points |-> acc]
    ELSE IF ~IsDict(items[i]) THEN [exc |-> "AttributeError", points |-> acc]
    ELSE BuildFrom(items, i + 1, Append(acc, Point(items[i])))

\* lines 132-149 on truthy `records`: iter(records) raises TypeError when records is
\* no list, dict or string
BuildPoints(records) ==
    IF ~Iterable(records) THEN [exc |-> "TypeError", points |-> <<>>]
    ELSE BuildFrom(Iterate(records), 1, <<>>)

\* lines 152-158: what is logged for the sink's answer o to a batch of n points
WriteLog(o, n) ==
    CASE o = "true" ->
           <<Rec("INFO", "Wrote %d installation points to InfluxDB database=%s", n)>>
      [] o = "false" ->
           <<Rec("WARNING", "InfluxDB client reported write failure for %d points", n)>>
      [] o = "raised" ->
           <<Rec("ERROR", "Failed to write installation points to InfluxDB: %s", 0)>>

(***************************************************************************)
(* The process.                                                            *)
(***************************************************************************)
\* the stage op has been entered in the current cycle
Called(op) == \E i \in 1..Len(calls) : calls[i] = op

\* no cycle remembered; `on` tells whether this run remembers one
NoMemo(on) ==
    [on |-> on, set |-> FALSE, later |-> FALSE, resp |-> PyNone, batch |-> <<>>, ack |-> "none"]

\* the batch the current cycle has extracted: its points once the write is reached,
\* none when the cycle had nothing extractable
CycleBatch == IF pc = "write" \/ Called("write") THEN points ELSE <<>>

\* the memo after the current cycle: a run that remembers keeps the first cycle it
\* chooses to, and notes that a later cycle has completed since
Remembered ==
    IF ~memo.on THEN {memo}
    ELSE IF memo.set THEN {[memo EXCEPT !.later = TRUE]}
    ELSE {memo, [on |-> TRUE, set |-> TRUE, later |-> FALSE, resp |-> installs,
                 batch |-> CycleBatch, ack |-> ack]}

\* the state when the process starts, in an environment of envs
Start(envs, n, on) ==
    /\ environ \in envs
    /\ pc = "start"
    /\ exitStatus = PyNone
    /\ raised = "none"
    /\ installs = PyNone
    /\ points = <<>>
    /\ log = <<>>
    /\ calls = <<>>
    /\ slept = PyNone
    /\ written = <<>>
    /\ ack = "none"
    /\ wire = Idle
    /\ net = n
    /\ memo = NoMemo(on)

Init == Start(Environments, "all", FALSE)

\* the runs that relate two cycles: the default interval and database, the small
\* network, one earlier cycle remembered
InitHistory ==
    Start({e \in Environments : e.INFLUX_DB = PyNone /\ e.POLL_INTERVAL_SECONDS = PyNone},
          "few", TRUE)

\* lines 50-59: a missing required setting ends the process with status 2
ValidateConfig ==
    /\ pc = "start"
    /\ IF missing # <<>>
       THEN /\ log' = <<Rec("ERROR", "Missing required config: %s", Len(missing)),
                        Rec("ERROR", "Set them via environment variables and try again.", 0)>>
            /\ pc' = "exited"
            /\ exitStatus' = JNum(2)
       ELSE /\ pc' = "client"
            /\ UNCHANGED <<log, exitStatus>>
    /\ UNCHANGED <<environ, net, memo, raised, installs, points, calls, slept, written, ack, wire>>

\* lines 64-70 and 110: the sink client is created, or the process ends with status 2;
\* then main() starts
CreateClient ==
    /\ pc = "client"
    /\ \E created \in BOOLEAN :
          IF created
          THEN /\ log' = <<Rec("INFO", "Starting VRM -> InfluxDB collector; polling every %ss",
                                POLL_INTERVAL)>>
               /\ pc' = "fetch"
               /\ UNCHANGED exitStatus
          ELSE /\ log' = <<Rec("ERROR", "Failed to create InfluxDB client: %s", 0)>>
               /\ pc' = "exited"
               /\ exitStatus' = JNum(2)
    /\ UNCHANGED <<environ, net, memo, raised, installs, points, calls, slept, written, ack, wire>>

\* line 113: installs = fetch_installations(); an exception it lets out leaves main()
\* and ends the process with a traceback (status 1)
Fetch ==
    /\ pc = "fetch"
    /\ \E x \in Network :
          LET r == fetch_installations(x)
          IN  /\ wire' = x
              /\ log' = r.log
              /\ IF r.exc = "none"
                 THEN /\ installs' = r.ret
                      /\ pc' = "fetched"
                      /\ UNCHANGED <<raised, exitStatus>>
                 ELSE /\ pc' = "crashed"
                      /\ raised' = r.exc
                      /\ exitStatus' = JNum(1)
                      /\ UNCHANGED installs
    /\ calls' = <<"fetch">>
    /\ slept' = PyNone
    /\ written' = <<>>
    /\ ack' = "none"
    /\ UNCHANGED <<environ, net, memo, points>>

\* FetchFailed with the sleep of line 116 left out: `continue` straight after the log
FetchFailed_NoSleep ==
    /\ pc = "fetched"
    /\ installs = PyNone
    /\ log' = Append(log, Rec("INFO", "Fetch failed, retrying after %s seconds", POLL_INTERVAL))
    /\ pc' = "fetch"
    /\ wire' = Idle
    /\ UNCHANGED <<environ, net, memo, exitStatus, raised, installs, points, calls, slept, written, ack>>

\* lines 114-115: the fetch failed; on to the sleep of line 116
FetchFailed ==
    /\ pc = "fetched"
    /\ installs = PyNone
    /\ log' = Append(log, Rec("INFO", "Fetch failed, retrying after %s seconds", POLL_INTERVAL))
    /\ pc' = "sleep"
    /\ wire' = Idle
    /\ UNCHANGED <<environ, net, memo, exitStatus, raised, installs, points, calls, slept, written, ack>>

\* Extract without `points = []` (line 132): the points of earlier cycles stay in the list
Extract_NoReset ==
    /\ pc = "fetched"
    /\ installs # PyNone
    /\ wire' = Idle
    /\ calls' = Append(calls, "extract")
    /\ LET records == RecordsOf(installs)
           built == BuildPoints(records)
       IN  IF NothingExtractable(records)
           THEN /\ log' = Append(log, Rec("INFO",
                              "No installation records found in VRM response; keys=%s", 0))
                /\ pc' = "sleep"
                /\ UNCHANGED <<points, raised, exitStatus>>
           ELSE /\ points' = points \o built.points
                /\ IF built.exc = "none"
                   THEN /\ pc' = "write"
                        /\ UNCHANGED <<raised, exitStatus>>
                   ELSE /\ pc' = "crashed"
                        /\ raised' = built.exc
                        /\ exitStatus' = JNum(1)
                /\ UNCHANGED log
    /\ UNCHANGED <<environ, net, memo, installs, slept, written, ack>>

\* lines 126-149: nothing extractable (on to the sleep of line 129), or the points
\* are built (on to the write), or the loop raises and the process ends
Extract ==
    /\ pc = "fetched"
    /\ installs # PyNone
    /\ wire' = Idle
    /\ calls' = Append(calls, "extract")
    /\ LET records == RecordsOf(installs)
           built == BuildPoints(records)
       IN  IF NothingExtractable(records)
           THEN /\ log' = Append(log, Rec("INFO",
                              "No installation records found in VRM response; keys=%s", 0))
                /\ pc' = "sleep"
                /\ UNCHANGED <<points, raised, exitStatus>>
           ELSE /\ points' = built.points
                /\ IF built.exc = "none"
                   THEN /\ pc' = "write"
                        /\ UNCHANGED <<raised, exitStatus>>
                   ELSE /\ pc' = "crashed"
                        /\ raised' = built.exc
                        /\ exitStatus' = JNum(1)
                /\ UNCHANGED log
    /\ UNCHANGED <<environ, net, memo, installs, slept, written, ack>>

\* Write without the try/except of lines 151-158: an exception of write_points
\* leaves main()
Write_Uncaught ==
    /\ pc = "write"
    /\ \E o \in {"true", "false", "raised"} :
          /\ ack' = o
          /\ IF o = "raised"
             THEN /\ pc' = "crashed"
                  /\ raised' = "Exception"
                  /\ exitStatus' = JNum(1)
                  /\ UNCHANGED log
             ELSE /\ pc' = "sleep"
                  /\ log' = log \o WriteLog(o, Len(points))
                  /\ UNCHANGED <<raised, exitStatus>>
    /\ written' = Append(written, points)
    /\ calls' = Append(calls, "write")
    /\ UNCHANGED <<environ, net, memo, installs, points, slept, wire>>

\* Write that calls write_points a second time when the first call fails
Write_RetryOnce ==
    /\ pc = "write"
    /\ \E o \in {"true", "false", "raised"} :
          /\ ack' = o
          /\ log' = log \o WriteLog(o, Len(points))
          /\ written' = IF o = "true" THEN Append(written, points)
                        ELSE written \o <<points, points>>
    /\ calls' = Append(calls, "write")
    /\ pc' = "sleep"
    /\ UNCHANGED <<environ, net, memo, exitStatus, raised, installs, points, slept, wire>>

\* Write with one write_points call per point
Write_PerPoint ==
    /\ pc = "write"
    /\ \E o \in {"true", "false", "raised"} :
          /\ ack' = o
          /\ log' = log \o WriteLog(o, Len(points))
    /\ written' = written \o [i \in 1..Len(points) |-> <<points[i]>>]
    /\ calls' = Append(calls, "write")
    /\ pc' = "sleep"
    /\ UNCHANGED <<environ, net, memo, exitStatus, raised, installs, points, slept, wire>>

\* lines 151-158: one write_points call; its answer is logged, an exception is caught
Write ==
    /\ pc = "write"
    /\ \E o \in {"true", "false", "raised"} :
          /\ ack' = o
          /\ log' = log \o WriteLog(o, Len(points))
    /\ written' = Append(written, points)
    /\ calls' = Append(calls, "write")
    /\ pc' = "sleep"
    /\ UNCHANGED <<environ, net, memo, exitStatus, raised, installs, points, slept, wire>>

\* Sleep that doubles the interval after a failed fetch
Sleep_Backoff ==
    /\ pc = "sleep"
    /\ slept' = JNum(IF installs = PyNone THEN 2 * POLL_INTERVAL ELSE POLL_INTERVAL)
    /\ calls' = Append(calls, "sleep")
    /\ pc' = "fetch"
    /\ memo' \in Remembered
    /\ UNCHANGED <<environ, net, exitStatus, raised, installs, points, log, written, ack, wire>>

\* lines 116, 129, 160: time.sleep(POLL_INTERVAL), then the next iteration
Sleep ==
    /\ pc = "sleep"
    /\ slept' = JNum(POLL_INTERVAL)
    /\ calls' = Append(calls, "sleep")
    /\ pc' = "fetch"
    /\ memo' \in Remembered
    /\ UNCHANGED <<environ, net, exitStatus, raised, installs, points, log, written, ack, wire>>

Next ==
    \/ ValidateConfig
    \/ CreateClient
    \/ Fetch
    \/ FetchFailed
    \/ Extract
    \/ Write
    \/ Sleep

Spec == Init /\ [][Next]_vars

SpecHistory == InitHistory /\ [][Next]_vars

(***************************************************************************)
(* Vocabulary of the properties.                                           *)
(***************************************************************************)
\* a record of the given severity has been logged in the current cycle
Logged(level) == \E i \in 1..Len(log) : log[i].level = level

\* the current cycle has slept and the next fetch is about to be issued
CycleDone == pc = "fetch" /\ calls # <<>>

\* inst is a well-formed installation list: a map whose `records` is a non-empty
\* list of maps
WellFormedList(inst) ==
    /\ IsDict(inst)
    /\ "records" \in DOMAIN inst.get
    /\ inst.get.records.kind = "list"
    /\ inst.get.records.items # <<>>
    /\ \A i \in 1..Len(inst.get.records.items) : IsDict(inst.get.records.items[i])

\* C1: when fetch_installations returns None, the cycle enters neither the
\* extraction nor the write, and the next fetch is issued only after one sleep of
\* POLL_INTERVAL seconds.
C1_FetchFailureSleeps ==
    (calls # <<>> /\ installs = PyNone) =>
        /\ ~Called("extract")
        /\ ~Called("write")
        /\ written = <<>>
        /\ pc \in {"fetched", "sleep", "fetch"}
        /\ (pc = "fetch" => calls = <<"fetch", "sleep">> /\ slept = JNum(POLL_INTERVAL))

C1_Witness ==
    /\ CycleDone
    /\ installs = PyNone
    /\ calls = <<"fetch", "sleep">>
    /\ Logged("WARNING")

\* C2 (as claimed): once the loop has begun, the process never ends on its own.
C2_LoopNeverEnds == calls # <<>> => pc \notin {"exited", "crashed"}


\* what the Fetcher's claim calls a failure of the exchange w: a network failure, a
\* status outside 200-299, or a body that does not parse
C3_FailureAsClaimed(w) ==
    \/ w.error # "none"
    \/ ~(200 <= w.status /\ w.status < 300)
    \/ w.body = Unparseable

\* C3 (as claimed): a network failure, a non-2xx status or an unparseable body makes
\* fetch_installations return None, and nothing is raised to main().
C3_EveryFailureIsNone ==
    (pc \in {"fetched", "crashed"} /\ wire # Idle /\ C3_FailureAsClaimed(wire)) =>
        (pc = "fetched" /\ raised = "none" /\ installs = PyNone)

\* C3 (amended): a network failure, a 4xx or 5xx status or an unparseable body makes
\* fetch_installations return None, and nothing is raised to main(); an exchange with
\* any other status and a parseable body returns the parsed body.
C3_ErrorStatusIsNone ==
    (pc \in {"fetched", "crashed"} /\ wire # Idle) =>
        /\ pc = "fetched"
        /\ raised = "none"
        /\ IF \/ wire.error # "none"
              \/ (400 <= wire.status /\ wire.status < 600)
              \/ wire.body = Unparseable
           THEN installs = PyNone /\ Logged("WARNING")
           ELSE installs = wire.body

C3_Witness ==
    /\ pc = "fetched"
    /\ wire.error = "none"
    /\ wire.status = 200
    /\ wire.body = Unparseable
    /\ installs = PyNone

\* the response does not have the shape of an installation list: the top-level value
\* is no map, `records` is present and no list, or a list with an element that is no map
C4_ShapeMismatch(inst) ==
    \/ ~IsDict(inst)
    \/ /\ "records" \in DOMAIN inst.get
       /\ \/ inst.get.records.kind # "list"
          \/ \E i \in 1..Len(inst.get.records.items) : ~IsDict(inst.get.records.items[i])

\* C4 (as claimed): a fetched response of the wrong shape is "nothing extractable":
\* no exception leaves the loop, nothing is written, the loop sleeps and goes on.
C4_MismatchIsNothingExtractable ==
    (Called("extract") /\ C4_ShapeMismatch(installs)) =>
        /\ raised = "none"
        /\ written = <<>>
        /\ pc \in {"sleep", "fetch"}

\* C5 (as claimed): every write failure, an exception or a false acknowledgement,
\* is logged at error severity, and the cycle still sleeps and goes on to the next fetch.
C5_WriteFailureLoggedAtError ==
    ack \in {"false", "raised"} =>
        /\ Logged("ERROR")
        /\ raised = "none"
        /\ pc \in {"sleep", "fetch"}

\* C5 (amended): an exception of write_points is caught and logged at error severity,
\* a false acknowledgement is logged at warning severity; in both cases nothing leaves
\* the loop, the cycle performs its one sleep of POLL_INTERVAL and the next cycle starts
\* with a fetch.
C5_WriteFailureSurvived ==
    ack \in {"false", "raised"} =>
        /\ (ack = "raised" => Logged("ERROR"))
        /\ (ack = "false" => /\ ~Logged("ERROR")
                             /\ \E i \in 1..Len(log) :
                                   log[i].level = "WARNING" /\ log[i].n = Len(points))
        /\ raised = "none"
        /\ pc \in {"sleep", "fetch"}
        /\ (pc = "fetch" => /\ calls = <<"fetch", "extract", "write", "sleep">>
                            /\ slept = JNum(POLL_INTERVAL))

C5_Witness == CycleDone /\ ack = "raised" /\ Logged("ERROR") /\ Len(written) = 1

\* a required configuration value is missing or empty
C6_RequiredValueMissing ==
    \E v \in {TOKEN, USER_ID, INFLUX_DB} : v = PyNone \/ v = JStr("")

C7_OnePointPerRecord ==
    (Called("extract") /\ WellFormedList(installs)) =>
        LET items == installs.get.records.items
        IN  /\ Len(points) = Len(items)
            /\ \A i \in 1..Len(points) :
                  /\ points[i].measurement = "vrm_installation"
                  /\ points[i] = Point(items[i])

C7_Witness ==
    /\ pc = "write"
    /\ installs = WithRecords(JList(<<RecFull, RecEmpty>>))
    /\ Len(points) = 2
    /\ points[1].tags.idSite = JStr("7")
    /\ points[2].tags.idSite = JStr("unknown")

\* C8: in a cycle whose fetch returns a well-formed list of N >= 1 records,
\* write_points is called exactly once, with one batch of the N points, and a true
\* acknowledgement is logged as N installation points written.
C8_OneWriteOfNPoints ==
    /\ Len(written) <= 1
    /\ (WellFormedList(installs) /\ (Called("write") \/ CycleDone)) =>
          /\ Len(written) = 1
          /\ written[1] = points
          /\ Len(written[1]) = Len(installs.get.records.items)
          /\ (ack = "true" =>
                 log = <<Rec("INFO", "Wrote %d installation points to InfluxDB database=%s",
                             Len(installs.get.records.items))>>)

C8_Witness ==
    /\ CycleDone
    /\ installs = WithRecords(JList(<<RecFull, RecZero>>))
    /\ ack = "true"
    /\ Len(written) = 1
    /\ Len(written[1]) = 2

\* the response is a map without `records`, or with an empty `records` list
C9_NoRecords(inst) ==
    /\ IsDict(inst)
    /\ \/ "records" \notin DOMAIN inst.get
       \/ inst.get.records = JList(<<>>)

\* C9: a response without `records`, or with an empty `records` list, is not an error:
\* nothing is written or raised, only info records are logged, and the cycle sleeps
\* POLL_INTERVAL and restarts from the fetch.
C9_NoRecordsSleeps ==
    (Called("extract") /\ C9_NoRecords(installs)) =>
        /\ raised = "none"
        /\ ~Called("write")
        /\ written = <<>>
        /\ \A i \in 1..Len(log) : log[i].level = "INFO"
        /\ pc \in {"sleep", "fetch"}
        /\ (pc = "fetch" => calls = <<"fetch", "extract", "sleep">>
                            /\ slept = JNum(POLL_INTERVAL))

C9_Witness ==
    /\ CycleDone
    /\ installs = WithRecords(JList(<<>>))
    /\ calls = <<"fetch", "extract", "sleep">>

\* C10 (as claimed): a series response whose `y` is empty or absent is "nothing
\* extractable": nothing is written and the loop goes on to the next cycle.
C10_EmptySeriesIsNothingExtractable ==
    (Called("extract") /\ installs \in {WithRecords(SeriesY(<<>>)), WithRecords(SeriesNoY)}) =>
        /\ raised = "none"
        /\ written = <<>>
        /\ pc \in {"sleep", "fetch"}


\* C11 (as claimed): from the series response {"records": {"soc": {"y": [10.0, 20.0,
\* 42.5]}}} the extraction yields exactly one point, whose field soc is the last
\* element of y, 42.5.
C11_LatestSocExtracted ==
    (Called("extract")
       /\ installs = WithRecords(SeriesY(<<JFloat(100), JFloat(200), JFloat(425)>>))) =>
        /\ raised = "none"
        /\ Len(points) = 1
        /\ DOMAIN points[1].fields = {"soc"}
        /\ points[1].fields.soc = JFloat(425)


\* key k is absent from the map rec
C12_Absent(rec, k) == k \notin DOMAIN rec.get

\* key k is absent from the map rec or holds v
C12_AbsentOr(rec, k, v) == C12_Absent(rec, k) \/ rec.get[k] = v

\* C12: a record without idSite (or with a null one) gets the tag idSite = "unknown";
\* a present idSite, 0 included, gets its decimal string; an absent or empty identifier
\* gives the tag identifier = "", an absent or empty name the field name = "".
C12_DefaultsForMissingValues ==
    (Called("extract") /\ WellFormedList(installs)) =>
        \A i \in 1..Len(installs.get.records.items) :
            LET rec == installs.get.records.items[i]
                p == points[i]
            IN  /\ i <= Len(points)
                /\ IF C12_AbsentOr(rec, "idSite", PyNone)
                   THEN p.tags.idSite = JStr("unknown")
                   ELSE /\ p.tags.idSite = JStr(Str(rec.get.idSite))
                        /\ p.tags.idSite # JStr("unknown")
                        /\ (rec.get.idSite = JNum(0) => p.tags.idSite = JStr("0"))
                        /\ (rec.get.idSite = JNum(12345) => p.tags.idSite = JStr("12345"))
                /\ (C12_AbsentOr(rec, "identifier", JStr("")) => p.tags.identifier = JStr(""))
                /\ (C12_AbsentOr(rec, "name", JStr("")) => p.fields.name = JStr(""))

C12_Witness ==
    /\ pc = "write"
    /\ installs = WithRecords(JList(<<RecZero, RecBig>>))
    /\ points[1].tags = [idSite |-> JStr("0"), identifier |-> JStr("")]
    /\ points[1].fields = [name |-> JStr("")]
    /\ points[2].tags = [idSite |-> JStr("12345"), identifier |-> JStr("abc")]
    /\ points[2].fields = [name |-> JStr("")]


\* how many times the stage op has been entered in the current cycle
Count(op) == Cardinality({i \in 1..Len(calls) : calls[i] = op})

\* C14: a cycle starts with its one fetch and ends with its one sleep; the next fetch
\* is issued only after that sleep, and every sleep is of POLL_INTERVAL seconds
\* whatever the cycle's outcome.
C14_OneSleepBetweenFetches ==
    /\ Count("fetch") <= 1
    /\ Count("sleep") <= 1
    /\ (calls # <<>> => calls[1] = "fetch")
    /\ (slept # PyNone => slept = JNum(POLL_INTERVAL))
    /\ (Count("sleep") = 1 => pc = "fetch" /\ calls[Len(calls)] = "sleep")
    /\ (CycleDone => Count("sleep") = 1 /\ slept = JNum(POLL_INTERVAL))

C14_Witness ==
    /\ CycleDone
    /\ installs = PyNone
    /\ Count("sleep") = 1
    /\ slept = JNum(5)

\* C15: write_points is never called with an empty batch and at most once per cycle;
\* a cycle calls it exactly when its fetch returned a response that lists at least
\* one record, from which the extraction built at least one point.
C15_WriteIffPoints ==
    /\ Len(written) <= 1
    /\ Count("write") = Len(written)
    /\ \A i \in 1..Len(written) : written[i] # <<>>
    /\ (Called("write") => installs # PyNone /\ Called("extract") /\ Len(points) >= 1)
    /\ ((pc = "sleep" \/ CycleDone) =>
           (Called("write") <=> (installs # PyNone /\ WellFormedList(installs))))

C15_Witness ==
    /\ pc = "sleep"
    /\ Called("write")
    /\ ack = "false"
    /\ written = <<points>>
    /\ Len(points) = 1

\* C17: every point handed to the sink has a non-empty measurement, the tags idSite
\* and identifier and no other, and the field name and no other.
C17_StablePointShape ==
    \A i \in 1..Len(written) :
        \A j \in 1..Len(written[i]) :
            LET p == written[i][j]
            IN  /\ DOMAIN p = {"measurement", "tags", "fields"}
                /\ p.measurement # ""
                /\ DOMAIN p.tags = {"idSite", "identifier"}
                /\ DOMAIN p.fields = {"name"}

C17_Witness ==
    /\ Called("write")
    /\ installs = WithRecords(JList(<<RecEmpty, RecFull>>))
    /\ Len(written) = 1
    /\ Len(written[1]) = 2
    /\ DOMAIN written[1][1].tags = DOMAIN written[1][2].tags


\* the points of one batch, as a set
PointsOf(batch) == {batch[j] : j \in 1..Len(batch)}

\* C13: a cycle that gets the same response as a remembered earlier cycle extracts
\* the same batch, point for point, whatever the cycles in between were (failed
\* fetches, failed writes, other responses).
C13_SameResponseSameBatch ==
    (memo.set /\ Called("extract") /\ installs = memo.resp
       /\ pc \in {"write", "sleep", "fetch"}) =>
        CycleBatch = memo.batch

C13_Witness ==
    /\ memo.set
    /\ memo.later
    /\ memo.resp = WithRecords(JList(<<RecFull, RecNull>>))
    /\ memo.ack = "raised"
    /\ installs = memo.resp
    /\ pc = "write"
    /\ Len(points) = 2
    /\ points = memo.batch

\* C16: the batch written in a cycle holds one point per record of that cycle's own
\* response and nothing else; a batch whose write failed is not written again in its
\* own cycle, and its points reach a later cycle's batch only through that cycle's
\* own response.
C16_BatchFromThisCycleOnly ==
    /\ Len(written) <= 1
    /\ (Called("write") =>
          /\ WellFormedList(installs)
          /\ written = <<[i \in 1..Len(installs.get.records.items) |->
                             Point(installs.get.records.items[i])]>>)
    /\ (memo.set /\ memo.ack \in {"false", "raised"} /\ Called("write")
          /\ installs # memo.resp) =>
          Len(written[1]) = Len(installs.get.records.items)

C16_Witness ==
    /\ memo.set
    /\ memo.ack = "raised"
    /\ memo.batch # <<>>
    /\ Called("write")
    /\ ack = "true"
    /\ Len(written) = 1
    /\ PointsOf(written[1]) \cap PointsOf(memo.batch) = {}

====
